---- MODULE Spec2Model ----
(***************************************************************************)
(* State-machine model of src/streamlit_app.py, the Streamlit front end   *)
(* of the interactive rotor-dynamics solver.                                *)
(*                                                                         *)
(* One step of the model is one run of the script: Streamlit re-executes   *)
(* the whole file top to bottom after every widget interaction, with at    *)
(* most one button reporting True in that run.  st.session_state survives  *)
(* between runs; everything else is rebuilt.  An uncaught exception ends   *)
(* the run at the raising line: widgets created before that line stay on   *)
(* screen, widgets after it are not created.                                *)
(*                                                                         *)
(* The ROSS library (rs.Rotor, rs.BearingElement, the run_* solvers) is    *)
(* outside the repository: each call either returns or raises, chosen by   *)
(* the environment.                                                         *)
(***************************************************************************)
EXTENDS Integers, Sequences, FiniteSets, TLC

\* ------------------------------------------------------------------ bounds
MaxShaft == 1
MaxDisk == 1
MaxBearing == 1
MaxUnbAdds == 2
MaxProbeAdds == 2
\* total number of entries held (shaft, disk, bearing) or ever appended
\* (unbalance, probe) at one time
MaxTotal == 3
MaxTextLen == 4

\* ------------------------------------------------------- program constants
STEEL_RHO == 7850
NTHETA_MIN == 3

VARIABLES
    shaft_elems,      \* st.session_state.shaft_elems
    disk_elems,       \* st.session_state.disk_elems
    bearing_elems,    \* st.session_state.bearing_elems
    has_unbalances,   \* "unbalances" in st.session_state
    unbalances,       \* st.session_state.unbalances
    has_probes,       \* "probes" in st.session_state
    probes,           \* st.session_state.probes
    menu,             \* value of the sidebar radio
    bearing_type,     \* value of the "Bearing Type" selectbox
    analysis,         \* value of the "Select analysis" selectbox
    rendered,         \* buttons and selectors created by the last run
    n_del,            \* number of unbalance remove buttons created by the last run
    n_del_pr,         \* number of probe remove buttons created by the last run
    pressed,          \* the button that reported True in the last run, "none"
                      \* when another widget started it
    error,            \* exception that ended the last run, or "none"
    msgs,             \* st.success / st.error / st.warning texts of the last run
    calls,            \* analysis routines called during the last run, in order
    uHist,            \* history: every unbalance ever appended, in append order
    uRemoved,         \* history: ids of the unbalances removed so far
    pHist,            \* history: every probe ever appended, in append order
    pRemoved,         \* history: ids of the probes removed so far
    summary,          \* the columns of the Modal summary built by the last run
    form,             \* history: what the last run read from the shaft form or
                      \* from the linear-bearing form
    text,             \* parser harness: the text handed to parse_list
    parsed            \* parser harness: what parse_list returned for it

vars == <<shaft_elems, disk_elems, bearing_elems, has_unbalances, unbalances,
          has_probes, probes, menu, bearing_type, analysis, rendered, n_del,
          n_del_pr, pressed, error, msgs, calls, summary, uHist, uRemoved,
          pHist, pRemoved, form, text, parsed>>

store_vars == <<shaft_elems, disk_elems, bearing_elems, has_unbalances,
                unbalances, has_probes, probes>>
hist_vars == <<uHist, uRemoved, pHist, pRemoved>>
NoForm == << <<>>, <<>>, <<>> >>
parse_vars == <<text, parsed>>

\* ---------------------------------------------------------------- parsing
\* A text is a sequence of one-character strings.
Alphabet == {"1", "2", ",", " ", "x"}
Digits == {"1", "2"}

DigitVal(c) == IF c = "1" THEN 1 ELSE 2

RECURSIVE SplitFrom(_, _, _)
\* str.split(","): scan from position i with the token cur being collected
SplitFrom(t, i, cur) ==
    IF i > Len(t) THEN <<cur>>
    ELSE IF t[i] = "," THEN <<cur>> \o SplitFrom(t, i + 1, <<>>)
    ELSE SplitFrom(t, i + 1, Append(cur, t[i]))

SplitDropEmpty(t) == SelectSeq(SplitFrom(t, 1, <<>>), LAMBDA tok : tok # <<>>)

Split(t) == SplitFrom(t, 1, <<>>)

RECURSIVE LStrip(_)
LStrip(t) == IF t # <<>> /\ Head(t) = " " THEN LStrip(Tail(t)) ELSE t

RECURSIVE RStrip(_)
RStrip(t) ==
    IF t # <<>> /\ t[Len(t)] = " " THEN RStrip(SubSeq(t, 1, Len(t) - 1)) ELSE t

\* str.strip()
Strip(t) == RStrip(LStrip(t))

RECURSIVE DecVal(_)
DecVal(t) ==
    IF t = <<>> THEN 0 ELSE 10 * DecVal(SubSeq(t, 1, Len(t) - 1)) + DigitVal(t[Len(t)])

\* float(x) accepts surrounding white space and, over this alphabet, a
\* non-empty run of digits; anything else raises ValueError
FloatOk(tok) ==
    LET s == Strip(tok) IN s # <<>> /\ \A i \in 1..Len(s) : s[i] \in Digits

FloatVal(tok) == DecVal(Strip(tok))

\* parse_list(text): np.array([float(x) for x in text.split(",")]);
\* ok = FALSE stands for the ValueError raised by float
parse_list(t) ==
    LET toks == Split(t)
    IN IF \A i \in 1..Len(toks) : FloatOk(toks[i])
       THEN [ok |-> TRUE, val |-> [i \in 1..Len(toks) |-> FloatVal(toks[i])]]
       ELSE [ok |-> FALSE, val |-> <<>>]

\* rpm * 2 * np.pi / 60, in fixed point: thousandths of rad/s, pi ~ 3.1416
ToRadPerSec(rpm) == (rpm * 104720) \div 1000

RpmArrayToRad(a) == [i \in 1..Len(a) |-> ToRadPerSec(a[i])]

\* parser harness: nothing parsed yet
NotParsed == [done |-> FALSE, ok |-> FALSE, val |-> <<>>]

RECURSIVE TextsUpTo(_)
TextsUpTo(n) ==
    IF n = 0 THEN {<<>>}
    ELSE LET shorter == TextsUpTo(n - 1)
         IN shorter \cup {Append(s, c) : s \in {x \in shorter : Len(x) = n - 1}, c \in Alphabet}


\* ------------------------------------------------------------- user inputs
Pages == {"Home", "General tips", "Shaft Elements", "Disk Elements",
          "Bearings & Seals", "Analyses"}
BearingTypes == {"I have dynamic coeffcient", "I have bearing geometry (Journal bearing)"}
AnalysisKinds == {"Static", "Modal", "UCS", "Unbalance", "Level 1 Stability"}

\* (od_mass, od_stiff) pairs typed into the shaft form [mm]
ShaftDiams == {<<100, 100>>, <<120, 100>>, <<100, 0>>, <<0, 0>>}
\* texts typed into the coefficient and frequency fields
\* <<a, b, f>>: a is typed into kxx, kyy, cxx, cyy, b into kxy, kyx, cxy, cyx
\* and f into the frequency field
BearingForms ==
    { << <<"2">>, <<"2">>, <<>> >>,
      << <<"2", ",", "1">>, <<"2", ",", "1">>, <<" ">> >>,
      << <<"1", ",", "2">>, <<"1", ",", "2">>, <<"1", ",", "2">> >>,
      << <<"1", ",", ",", "2">>, <<"1">>, <<"2">> >>,
      << <<"1">>, <<"1">>, <<"x">> >> }
SpeedTexts == {<<"1">>, <<"x">>}
\* (j_diam, s_diam) pairs typed into the fluid-film form [mm]
FilmDiams == {<<100, 102>>, <<100, 98>>}
\* what is typed into a form whose collection already holds an entry: a
\* narrower choice than for the first entry, the failing inputs all kept
ShaftDiamsFor(sh) == IF sh = <<>> THEN ShaftDiams ELSE {<<100, 100>>, <<100, 0>>}
BearingFormsFor(be) ==
    IF be = <<>> THEN BearingForms
    ELSE {fm \in BearingForms : fm[3] # <<"1", ",", "2">>}
FilmDiamsFor(be) == IF be = <<>> THEN FilmDiams ELSE {<<100, 102>>}
\* st.number_input(..., min_value=3, ...) never returns less than 3
NthetaInputs == {NTHETA_MIN}
\* "Number of modes to show": st.number_input(..., min_value=1, value=6)
ModesInputs == {1, 2}
\* number of entries of modal.wn, modal.damping_ratio and modal.log_dec
ProvidedModes == {1}
\* "Enter rated speed in RPM"
RatedInputs == {0, 3000}
\* (node, mass, phase) typed into the unbalance form for the k-th add
UnbInput(k) == <<k - 1, k % 2, (90 * k) % 360>>
\* (node, phase) typed into the probe form for the k-th add
ProbeInput(k) == <<k % 2, (45 * k) % 360>>

\* ---------------------------------------------------------- unit handling
\* x / 1000 (mm -> m), in fixed point: micrometres
MmToM(x) == x * 1000

RhoAdjLinear(od_mass_m, od_stiff_m) ==
    LET r == (od_mass_m * 100) \div od_stiff_m IN (STEEL_RHO * r) \div 100

\* steel.rho * (od_mass_m / od_stiff_m) ** 2, the ratio kept to two decimals
RhoAdj(od_mass_m, od_stiff_m) ==
    LET r == (od_mass_m * 100) \div od_stiff_m IN (STEEL_RHO * r * r) \div 10000

\* ------------------------------------------------------------ the elements
\* rs.ShaftElement(L=L_m, idl=id_m, odl=od_stiff_m, material=mat, n=n, ...)
ShaftElement(n, od_mass, od_stiff) ==
    [n |-> n, odl |-> MmToM(od_stiff),
     rho |-> IF od_mass # od_stiff THEN RhoAdj(MmToM(od_mass), MmToM(od_stiff))
             ELSE STEEL_RHO]

\* rs.DiskElement(n=n, m=m, Ip=Ip, Id=Id)
DiskElement(n) == [n |-> n, m |-> 10]

\* the eight parsed coefficient arrays of the linear-bearing form; fields a
\* and b are the two texts the form is filled from
CoefArrays(a, b) ==
    [kxx |-> parse_list(a), kyy |-> parse_list(a), kxy |-> parse_list(b),
     kyx |-> parse_list(b), cxx |-> parse_list(a), cyy |-> parse_list(a),
     cxy |-> parse_list(b), cyx |-> parse_list(b)]

CoefNames == {"kxx", "kyy", "kxy", "kyx", "cxx", "cyy", "cxy", "cyx"}

\* rs.BearingElement(n=n_b, kxx=kxx_arr, ..., frequency=frequencies)
SpeedDependentBearing(n, c, freqs_rpm) ==
    [kind |-> "Linear", n |-> n, scalar |-> FALSE,
     kxx |-> c.kxx.val, kyy |-> c.kyy.val, kxy |-> c.kxy.val, kyx |-> c.kyx.val,
     cxx |-> c.cxx.val, cyy |-> c.cyy.val, cxy |-> c.cxy.val, cyx |-> c.cyx.val,
     frequency |-> RpmArrayToRad(freqs_rpm)]

ScalarBearingLast(n, c) ==
    [kind |-> "Linear", n |-> n, scalar |-> TRUE,
     kxx |-> <<c.kxx.val[Len(c.kxx.val)]>>, kyy |-> <<c.kyy.val[Len(c.kyy.val)]>>,
     kxy |-> <<c.kxy.val[Len(c.kxy.val)]>>, kyx |-> <<c.kyx.val[Len(c.kyx.val)]>>,
     cxx |-> <<c.cxx.val[Len(c.cxx.val)]>>, cyy |-> <<c.cyy.val[Len(c.cyy.val)]>>,
     cxy |-> <<c.cxy.val[Len(c.cxy.val)]>>, cyx |-> <<c.cyx.val[Len(c.cyx.val)]>>,
     frequency |-> <<>>]

\* rs.BearingElement(n=n_b, kxx=kxx_arr[0], ..., cyx=cyx_arr[0]); a scalar
\* coefficient v is written <<v>> with scalar = TRUE, frequency None is <<>>
ScalarBearing(n, c) ==
    [kind |-> "Linear", n |-> n, scalar |-> TRUE,
     kxx |-> <<c.kxx.val[1]>>, kyy |-> <<c.kyy.val[1]>>, kxy |-> <<c.kxy.val[1]>>,
     kyx |-> <<c.kyx.val[1]>>, cxx |-> <<c.cxx.val[1]>>, cyy |-> <<c.cyy.val[1]>>,
     cxy |-> <<c.cxy.val[1]>>, cyx |-> <<c.cyx.val[1]>>,
     frequency |-> <<>>]

\* rs.BearingFluidFlow(n=n_b, nz=int(nz), ntheta=int(ntheta), ...)
BearingFluidFlow(n, ntheta, j_diam, s_diam, speeds) ==
    [kind |-> "FluidFilm", n |-> n, nz |-> 30, ntheta |-> ntheta,
     radius_rotor |-> MmToM(j_diam) \div 2, radius_stator |-> MmToM(s_diam) \div 2,
     omega |-> RpmArrayToRad(speeds)]

NoRatedSpeed == -1

\* CompressorRPM * np.pi/30, in fixed point: thousandths of rad/s
RatedW(rpm) == (rpm * 31416) \div 300

\* rs.Rotor(shaft_elems, disk_elems, bearing_elems[, rated_w])
Rotor(sh, di, be, rated) == [shaft |-> sh, disk |-> di, bearing |-> be, rated_w |-> rated]


\* --------------------------------------------------------- run bookkeeping
\* room left for one more entry
Room ==
    Len(shaft_elems) + Len(disk_elems) + Len(bearing_elems)
        + Len(uHist) + Len(pHist) < MaxTotal

\* no Modal summary was built
NoSummary == <<>>

DefaultBearingType == "I have dynamic coeffcient"
DefaultAnalysis == "Static"

\* what a run outside the Analyses page leaves on screen; fm is the content
\* of the form the run read
ShownForm(p, r, e, m, fm) ==
    /\ pressed' = p
    /\ rendered' = r
    /\ error' = e
    /\ msgs' = m
    /\ calls' = <<>>
    /\ summary' = NoSummary
    /\ n_del' = 0
    /\ n_del_pr' = 0
    /\ analysis' = DefaultAnalysis   \* the selectbox was not created: its value is dropped
    /\ form' = fm

Shown(p, r, e, m) == ShownForm(p, r, e, m, NoForm)

\* the outcomes of an external call: it returns (TRUE) or raises (FALSE);
\* one outcome is enough where the run does not reach the call
Outcomes(reached) == IF reached THEN BOOLEAN ELSE {TRUE}

\* lines 70-77, 93-100, 159-166, 214-221: the rotor preview
Preview(sh, rotor_ok) == IF sh # <<>> /\ ~rotor_ok THEN "Rotor" ELSE "none"

\* ------------------------------------------------------ Shaft Elements page
AddShaftElement ==
    /\ menu = "Shaft Elements"
    /\ "Add Shaft Element" \in rendered
    /\ \E d \in ShaftDiamsFor(shaft_elems) :
       \E ctor_ok \in Outcomes(~(d[1] # d[2] /\ MmToM(d[2]) = 0)) :
       \E rotor_ok \in Outcomes(ctor_ok) :
          LET od_mass == d[1]
              od_stiff == d[2]
              elem == ShaftElement(0, od_mass, od_stiff)
          IN IF od_mass # od_stiff /\ MmToM(od_stiff) = 0
             THEN /\ shaft_elems' = shaft_elems
                  /\ ShownForm("Add Shaft Element", {"Add Shaft Element"}, "ZeroDivisionError", {}, d)
             ELSE IF ~ctor_ok
             THEN /\ shaft_elems' = shaft_elems
                  /\ ShownForm("Add Shaft Element", {"Add Shaft Element"}, "ShaftElement", {}, d)
             ELSE /\ Len(shaft_elems) < MaxShaft /\ Room
                  /\ shaft_elems' = Append(shaft_elems, elem)
                  /\ ShownForm("Add Shaft Element", {"Add Shaft Element"},
                               Preview(Append(shaft_elems, elem), rotor_ok),
                               {"Added shaft element"}, d)
    /\ UNCHANGED <<disk_elems, bearing_elems, has_unbalances, unbalances,
                   has_probes, probes, menu, bearing_type>>
    /\ UNCHANGED hist_vars
    /\ UNCHANGED parse_vars

\* ------------------------------------------------------- Disk Elements page
AddDiskElement ==
    /\ menu = "Disk Elements"
    /\ "Add Disk Element" \in rendered
    /\ \E ctor_ok \in BOOLEAN :
       \E rotor_ok \in Outcomes(ctor_ok /\ shaft_elems # <<>>) :
          IF ~ctor_ok
          THEN /\ disk_elems' = disk_elems
               /\ Shown("Add Disk Element", {"Add Disk Element"}, "DiskElement", {})
          ELSE /\ Len(disk_elems) < MaxDisk /\ Room
               /\ disk_elems' = Append(disk_elems, DiskElement(0))
               /\ Shown("Add Disk Element", {"Add Disk Element"},
                        Preview(shaft_elems, rotor_ok), {"Added disk element"})
    /\ UNCHANGED <<shaft_elems, bearing_elems, has_unbalances, unbalances,
                   has_probes, probes, menu, bearing_type>>
    /\ UNCHANGED hist_vars
    /\ UNCHANGED parse_vars

\* ---------------------------------------------------- Bearings & Seals page
BearingButtons(bt) ==
    IF bt = DefaultBearingType THEN {"Bearing Type", "Add Bearing Element"}
    ELSE {"Bearing Type", "Add Fluid Film Bearing"}

\* the element built by lines 133-155 from the form texts, or the exception
\* that ends the run; ctor_ok is whether rs.BearingElement returns
LinearStoreThenBuild(a, b, f, ctor_ok) ==
    LET c == CoefArrays(a, b)
        none == ScalarBearing(0, CoefArrays(<<"1">>, <<"1">>))
    IN IF \E k \in CoefNames : ~c[k].ok
       THEN [err |-> "ValueError", append |-> FALSE, elem |-> none]
       ELSE IF Strip(f) # <<>>
       THEN LET freqs_rpm == parse_list(f)
            IN IF ~freqs_rpm.ok
               THEN [err |-> "ValueError", append |-> FALSE, elem |-> none]
               ELSE [err |-> IF ctor_ok THEN "none" ELSE "BearingElement", append |-> TRUE,
                     elem |-> SpeedDependentBearing(0, c, freqs_rpm.val)]
       ELSE [err |-> IF ctor_ok THEN "none" ELSE "BearingElement", append |-> TRUE,
             elem |-> ScalarBearing(0, c)]

LinearBuild(a, b, f, ctor_ok) ==
    LET c == CoefArrays(a, b)
        none == ScalarBearing(0, CoefArrays(<<"1">>, <<"1">>))
    IN IF \E k \in CoefNames : ~c[k].ok
       THEN [err |-> "ValueError", append |-> FALSE, elem |-> none]
       ELSE IF Strip(f) # <<>>
       THEN LET freqs_rpm == parse_list(f)
            IN IF ~freqs_rpm.ok
               THEN [err |-> "ValueError", append |-> FALSE, elem |-> none]
               ELSE IF ~ctor_ok
               THEN [err |-> "BearingElement", append |-> FALSE, elem |-> none]
               ELSE [err |-> "none", append |-> TRUE,
                     elem |-> SpeedDependentBearing(0, c, freqs_rpm.val)]
       ELSE IF ~ctor_ok
       THEN [err |-> "BearingElement", append |-> FALSE, elem |-> none]
       ELSE [err |-> "none", append |-> TRUE, elem |-> ScalarBearing(0, c)]

AddBearingElement ==
    /\ menu = "Bearings & Seals"
    /\ "Add Bearing Element" \in rendered
    /\ \E fm \in BearingFormsFor(bearing_elems) :
       \E ctor_ok \in Outcomes(LinearBuild(fm[1], fm[2], fm[3], TRUE).append) :
       \E rotor_ok \in Outcomes(ctor_ok /\ shaft_elems # <<>>) :
       \E r \in {LinearBuild(fm[1], fm[2], fm[3], ctor_ok)} :
          LET after == IF r.append THEN Append(bearing_elems, r.elem) ELSE bearing_elems
          IN /\ r.append => Len(bearing_elems) < MaxBearing /\ Room
             /\ bearing_elems' = after
             /\ ShownForm("Add Bearing Element", BearingButtons(bearing_type),
                          IF r.err # "none" THEN r.err ELSE Preview(shaft_elems, rotor_ok),
                          IF r.err = "none" THEN {"Bearing element added"} ELSE {},
                          fm)
    /\ UNCHANGED <<shaft_elems, disk_elems, has_unbalances, unbalances,
                   has_probes, probes, menu, bearing_type>>
    /\ UNCHANGED hist_vars
    /\ UNCHANGED parse_vars

\* lines 187-212; ctor_ok is whether rs.BearingFluidFlow returns
FluidBuild(ntheta, d, sp, ctor_ok) ==
    LET speeds == parse_list(sp)
        none == BearingFluidFlow(0, NTHETA_MIN, 0, 0, <<>>)
    IN IF ~speeds.ok
       THEN [err |-> "ValueError", append |-> FALSE, elem |-> none]
       ELSE IF ~ctor_ok
       THEN [err |-> "BearingFluidFlow", append |-> FALSE, elem |-> none]
       ELSE [err |-> "none", append |-> TRUE,
             elem |-> BearingFluidFlow(0, ntheta, d[1], d[2], speeds.val)]

AddFluidFilmBearing ==
    /\ menu = "Bearings & Seals"
    /\ "Add Fluid Film Bearing" \in rendered
    /\ \E ntheta \in NthetaInputs, d \in FilmDiamsFor(bearing_elems), sp \in SpeedTexts :
       \E ctor_ok \in Outcomes(parse_list(sp).ok) :
       \E rotor_ok \in Outcomes(ctor_ok /\ shaft_elems # <<>>) :
       \E r \in {FluidBuild(ntheta, d, sp, ctor_ok)} :
          LET after == IF r.append THEN Append(bearing_elems, r.elem) ELSE bearing_elems
          IN /\ r.append => Len(bearing_elems) < MaxBearing /\ Room
             /\ bearing_elems' = after
             /\ Shown("Add Fluid Film Bearing", BearingButtons(bearing_type),
                      IF r.err # "none" THEN r.err ELSE Preview(shaft_elems, rotor_ok),
                      IF r.err = "none" THEN {"Added fluid-film bearing"} ELSE {})
    /\ UNCHANGED <<shaft_elems, disk_elems, has_unbalances, unbalances,
                   has_probes, probes, menu, bearing_type>>
    /\ UNCHANGED hist_vars
    /\ UNCHANGED parse_vars

\* the user picks the other entry of the "Bearing Type" selectbox
SelectBearingType ==
    /\ menu = "Bearings & Seals"
    /\ "Bearing Type" \in rendered
    /\ \E bt \in BearingTypes \ {bearing_type}, rotor_ok \in Outcomes(shaft_elems # <<>>) :
          /\ bearing_type' = bt
          /\ Shown("none", BearingButtons(bt),
                   IF bt = DefaultBearingType THEN Preview(shaft_elems, rotor_ok) ELSE "none",
                   {})
    /\ UNCHANGED store_vars
    /\ UNCHANGED menu
    /\ UNCHANGED hist_vars
    /\ UNCHANGED parse_vars


\* ------------------------------------------------------------ Analyses page
\* The page is written as a function from the session state at the start of
\* a run to the session state and the screen at its end, so that the run
\* started by st.experimental_rerun() can be composed with the run that
\* requested it.

\* session state at the start of a run, nothing on screen yet
Session ==
    [shaft |-> shaft_elems, disk |-> disk_elems, bearing |-> bearing_elems,
     hu |-> has_unbalances, unb |-> unbalances, hp |-> has_probes, pr |-> probes,
     uH |-> uHist, uR |-> uRemoved, pH |-> pHist, pR |-> pRemoved,
     an |-> DefaultAnalysis, rend |-> {}, nd |-> 0, ndp |-> 0,
     err |-> "none", msgs |-> {}, calls |-> <<>>, summary |-> NoSummary,
     rerun |-> FALSE]

\* one call of an analysis routine: the rotor it is called on, its arguments,
\* and the collections as they are in st.session_state at that moment
Call(fn, rotor, s, nodes, masses, phases) ==
    [fn |-> fn, rotor |-> rotor,
     store |-> [shaft |-> s.shaft, disk |-> s.disk, bearing |-> s.bearing,
                unb |-> s.unb, pr |-> s.pr],
     nodes |-> nodes, masses |-> masses, phases |-> phases]

Dispatch(s, fn, rotor) == [s EXCEPT !.calls = Append(@, Call(fn, rotor, s, <<>>, <<>>, <<>>))]

\* list.pop(i), i counted from 0
PopFirst(l, i) == Tail(l)

Pop(l, i) == SubSeq(l, 1, i) \o SubSeq(l, i + 2, Len(l))

NodesFirst(unb) == IF unb = <<>> THEN <<>> ELSE <<unb[1].node>>

\* the three list comprehensions of lines 328-330 and 364-366
Nodes(unb) == [i \in 1..Len(unb) |-> unb[i].node]
Masses(unb) == [i \in 1..Len(unb) |-> unb[i].mass]
Phases(unb) == [i \in 1..Len(unb) |-> unb[i].phase]

RunUnguarded(s, b) == TRUE

\* line 326 / 362: st.button(...) and st.session_state.unbalances
RunGuard(s, b) == b /\ s.unb # <<>>

ClearButtonsShared(s, press) ==
    LET s1 == [s EXCEPT !.rend = @ \cup {"Clear all Shaft Elements",
                                         "Clear all Disk Elements",
                                         "Clear all Bearing Elements"}]
    IN IF press = "Clear all Shaft Elements" THEN [s1 EXCEPT !.shaft = <<>>]
       ELSE IF press = "Clear all Disk Elements" THEN [s1 EXCEPT !.bearing = <<>>]
       ELSE IF press = "Clear all Bearing Elements" THEN [s1 EXCEPT !.bearing = <<>>]
       ELSE s1

\* lines 235-240
ClearButtons(s, press) ==
    LET s1 == [s EXCEPT !.rend = @ \cup {"Clear all Shaft Elements",
                                         "Clear all Disk Elements",
                                         "Clear all Bearing Elements"}]
    IN IF press = "Clear all Shaft Elements" THEN [s1 EXCEPT !.shaft = <<>>]
       ELSE IF press = "Clear all Disk Elements" THEN [s1 EXCEPT !.disk = <<>>]
       ELSE IF press = "Clear all Bearing Elements" THEN [s1 EXCEPT !.bearing = <<>>]
       ELSE s1

\* a[:n] of an array of len entries has min(n, len) entries
SliceLen(len, n) == IF n < len THEN n ELSE len

\* lines 264-273: the columns of modal_data; "Mode" has in.modes entries, the
\* three others are slices of the arrays run_modal returned
ModalData(modes, wn_len) == [mode |-> modes, rows |-> SliceLen(wn_len, modes)]

FirstChainUcsStatic(s, rotor, an, in, ext) ==
    IF an = "Static"
    THEN LET s1 == Dispatch(s, "run_static", rotor)
         IN IF ext.solver_ok THEN s1 ELSE [s1 EXCEPT !.err = "run_static"]
    ELSE IF an = "Modal"
    THEN LET s1 == Dispatch(s, "run_modal", rotor)
             s2 == [s1 EXCEPT !.summary = ModalData(in.modes, ext.wn_len)]
         IN IF ~ext.solver_ok THEN [s1 EXCEPT !.err = "run_modal"]
            ELSE IF ~ext.table_ok THEN [s2 EXCEPT !.err = "st.table"]
            ELSE IF ~in.campbell THEN s2
            ELSE LET s3 == Dispatch(s2, "run_campbell", rotor)
                 IN IF ext.solver2_ok THEN s3 ELSE [s3 EXCEPT !.err = "run_campbell"]
    ELSE IF an = "UCS"
    THEN LET s1 == Dispatch(s, "run_static", rotor)
         IN IF ext.solver_ok THEN s1 ELSE [s1 EXCEPT !.err = "run_ucs"]
    ELSE s

\* lines 244-291: the first if/elif chain.  in.modes and in.campbell are the
\* Modal inputs, ext.solver_ok / ext.solver2_ok whether the routines return,
\* ext.wn_len the size of the modal result, ext.table_ok whether st.table
\* returns
FirstChain(s, rotor, an, in, ext) ==
    IF an = "Static"
    THEN LET s1 == Dispatch(s, "run_static", rotor)
         IN IF ext.solver_ok THEN s1 ELSE [s1 EXCEPT !.err = "run_static"]
    ELSE IF an = "Modal"
    THEN LET s1 == Dispatch(s, "run_modal", rotor)
             s2 == [s1 EXCEPT !.summary = ModalData(in.modes, ext.wn_len)]
         IN IF ~ext.solver_ok THEN [s1 EXCEPT !.err = "run_modal"]
            ELSE IF ~ext.table_ok THEN [s2 EXCEPT !.err = "st.table"]
            ELSE IF ~in.campbell THEN s2
            ELSE LET s3 == Dispatch(s2, "run_campbell", rotor)
                 IN IF ext.solver2_ok THEN s3 ELSE [s3 EXCEPT !.err = "run_campbell"]
    ELSE IF an = "UCS"
    THEN LET s1 == Dispatch(s, "run_ucs", rotor)
         IN IF ext.solver_ok THEN s1 ELSE [s1 EXCEPT !.err = "run_ucs"]
    ELSE s

\* lines 300-310
AddUnbalanceStep(s, press, in) ==
    LET s1 == [s EXCEPT !.rend = @ \cup {"Add Unbalance Mass"}]
        u == [node |-> in.unb[1], mass |-> in.unb[2], phase |-> in.unb[3],
              id |-> Len(s.uH) + 1]
    IN IF press = "Add Unbalance Mass"
       THEN [s1 EXCEPT !.unb = Append(@, u), !.uH = Append(@, u),
                       !.msgs = @ \cup {"Added unbalance"}]
       ELSE s1

\* list.pop(i) raises IndexError when i is not an index of the list
PopRaises(l, i) == i >= Len(l)

RemoveUnbalanceStale(s, press, in, ext) ==
    IF press = "del"
    THEN IF PopRaises(s.unb, in.idx)
         THEN [s EXCEPT !.nd = in.idx + 1, !.err = "IndexError"]
         ELSE LET s1 == [s EXCEPT !.nd = in.idx + 1,
                                  !.uR = @ \cup {s.unb[in.idx + 1].id},
                                  !.unb = Pop(@, in.idx)]
              IN IF ext.rerun_ok THEN [s1 EXCEPT !.rerun = TRUE]
                 ELSE [s1 EXCEPT !.err = "experimental_rerun"]
    ELSE [s EXCEPT !.nd = Len(s.unb)]

\* lines 313-320: the remove buttons.  The loop creates the button of row i
\* (from 0) only while i is an index of the list, so the press of row in.idx
\* is seen only if in.idx < len(list); the run ends right after the pop
RemoveUnbalanceStep(s, press, in, ext) ==
    IF press = "del" /\ in.idx < Len(s.unb)
    THEN IF PopRaises(s.unb, in.idx)
         THEN [s EXCEPT !.nd = in.idx + 1, !.err = "IndexError"]
         ELSE LET s1 == [s EXCEPT !.nd = in.idx + 1,
                                  !.uR = @ \cup {s.unb[in.idx + 1].id},
                                  !.unb = Pop(@, in.idx)]
              IN IF ext.rerun_ok THEN [s1 EXCEPT !.rerun = TRUE]
                 ELSE [s1 EXCEPT !.err = "experimental_rerun"]
    ELSE [s EXCEPT !.nd = Len(s.unb)]

\* lines 326-332
RunFirstButton(s, rotor, press, ext) ==
    LET s1 == [s EXCEPT !.rend = @ \cup {"Run Unbalance Response"}]
    IN IF RunGuard(s1, press = "Run Unbalance Response")
       THEN LET s2 == [s1 EXCEPT !.calls = Append(@,
                          Call("run_unbalance_response", rotor, s1,
                               Nodes(s1.unb), Masses(s1.unb), Phases(s1.unb)))]
            IN IF ext.solver_ok THEN s2 ELSE [s2 EXCEPT !.err = "run_unbalance_response"]
       ELSE s1

\* lines 335-349
AddProbeStep(s, press, in) ==
    LET s0 == IF s.hp THEN s ELSE [s EXCEPT !.hp = TRUE, !.pr = <<>>]
        s1 == [s0 EXCEPT !.rend = @ \cup {"Add Probe"}]
        p == [node |-> in.probe[1], phase |-> in.probe[2], id |-> Len(s.pH) + 1]
    IN IF press = "Add Probe"
       THEN [s1 EXCEPT !.pr = Append(@, p), !.pH = Append(@, p),
                       !.msgs = @ \cup {"Probe added"}]
       ELSE s1

\* lines 352-359
RemoveProbeStep(s, press, in, ext) ==
    IF press = "del_pr" /\ in.idx < Len(s.pr)
    THEN IF PopRaises(s.pr, in.idx)
         THEN [s EXCEPT !.ndp = in.idx + 1, !.err = "IndexError"]
         ELSE LET s1 == [s EXCEPT !.ndp = in.idx + 1,
                                  !.pR = @ \cup {s.pr[in.idx + 1].id},
                                  !.pr = Pop(@, in.idx)]
              IN IF ext.rerun_ok THEN [s1 EXCEPT !.rerun = TRUE]
                 ELSE [s1 EXCEPT !.err = "experimental_rerun"]
    ELSE [s EXCEPT !.ndp = Len(s.pr)]

\* lines 362-386
RunSecondButton(s, rotor, press, ext) ==
    LET s1 == [s EXCEPT !.rend = @ \cup {"run_unbalance"}]
    IN IF RunGuard(s1, press = "run_unbalance")
       THEN LET s2 == [s1 EXCEPT !.calls = Append(@,
                          Call("run_unbalance_response", rotor, s1,
                               Nodes(s1.unb), Masses(s1.unb), Phases(s1.unb)))]
            IN IF ext.solver_ok THEN s2 ELSE [s2 EXCEPT !.err = "run_unbalance_response"]
       ELSE LET s3 == [s1 EXCEPT !.rend = @ \cup {"unbalance"}]
            IN IF press = "unbalance"
               THEN [s3 EXCEPT !.msgs = @ \cup {"Add at least one unbalance mass first."}]
               ELSE s3

Stopped(s) == s.err # "none" \/ s.rerun

\* lines 299-386: the branch of analysis == "Unbalance"
UnbalanceBranch(s, rotor, press, in, ext) ==
    LET a == AddUnbalanceStep(s, press, in)
        b == RemoveUnbalanceStep(a, press, in, ext)
        c == RunFirstButton(b, rotor, press, ext)
        d == AddProbeStep(c, press, in)
        e == RemoveProbeStep(d, press, in, ext)
    IN IF Stopped(b) THEN b
       ELSE IF Stopped(c) THEN c
       ELSE IF Stopped(e) THEN e
       ELSE RunSecondButton(e, rotor, press, ext)

\* lines 388-407: the branch of analysis == "Level 1 Stability"
Level1Branch(s, press, in, ext) ==
    LET s1 == [s EXCEPT !.rend = @ \cup {"Start level 1 analysis"}]
    IN IF press # "Start level 1 analysis" THEN s1
       ELSE IF ~ext.rotor1_ok THEN [s1 EXCEPT !.err = "Rotor"]
       ELSE LET rotor1 == Rotor(s1.shaft, s1.disk, s1.bearing, RatedW(in.rpm))
                s2 == Dispatch(s1, "run_level1", rotor1)
            IN IF ext.solver_ok THEN s2 ELSE [s2 EXCEPT !.err = "run_level1"]


\* lines 224-409: one run of the Analyses page.  press is the button that
\* reports True in this run ("none" when the run was started otherwise), an
\* the value of the analysis selectbox
AnalysesPage(s, press, an, in, ext) ==
    IF s.shaft = <<>>
    THEN [s EXCEPT !.msgs = {"Please add at least one shaft element first!"}]
    ELSE IF ~ext.rotor_ok THEN [s EXCEPT !.err = "Rotor"]
    ELSE LET rotor == Rotor(s.shaft, s.disk, s.bearing, NoRatedSpeed)
             s1 == ClearButtons(s, press)
             s2 == [s1 EXCEPT !.rend = @ \cup {"Select analysis"}, !.an = an]
             s3 == FirstChain(s2, rotor, an, in, ext)
         IN IF Stopped(s3) THEN s3
            ELSE IF ~s3.hu THEN [s3 EXCEPT !.hu = TRUE, !.unb = <<>>]
            ELSE IF an = "Unbalance" THEN UnbalanceBranch(s3, rotor, press, in, ext)
            ELSE IF an = "Level 1 Stability" THEN Level1Branch(s3, press, in, ext)
            ELSE s3

\* the screen is redrawn from scratch by the next run
Fresh(s) ==
    [s EXCEPT !.an = DefaultAnalysis, !.rend = {}, !.nd = 0, !.ndp = 0,
              !.err = "none", !.msgs = {}, !.calls = <<>>, !.summary = NoSummary,
              !.rerun = FALSE]

\* a run, followed by the run st.experimental_rerun() asked for (no button
\* reports True in that one; rotor2_ok is whether its rs.Rotor returns)
RunAnalyses(press, an, in, ext, rotor2_ok) ==
    LET r == AnalysesPage(Session, press, an, in, ext)
    IN IF r.rerun
       THEN AnalysesPage(Fresh(r), "none", an, in, [ext EXCEPT !.rotor_ok = rotor2_ok])
       ELSE r

Commit(r, p) ==
    /\ shaft_elems' = r.shaft
    /\ disk_elems' = r.disk
    /\ bearing_elems' = r.bearing
    /\ has_unbalances' = r.hu
    /\ unbalances' = r.unb
    /\ has_probes' = r.hp
    /\ probes' = r.pr
    /\ uHist' = r.uH
    /\ uRemoved' = r.uR
    /\ pHist' = r.pH
    /\ pRemoved' = r.pR
    /\ analysis' = r.an
    /\ rendered' = r.rend
    /\ n_del' = r.nd
    /\ n_del_pr' = r.ndp
    /\ error' = r.err
    /\ msgs' = r.msgs
    /\ calls' = r.calls
    /\ summary' = r.summary
    /\ pressed' = p
    /\ bearing_type' = DefaultBearingType
    /\ form' = NoForm
    /\ UNCHANGED parse_vars

\* inputs and environment choices that a run does not look at
NoIn == [unb |-> <<0, 0, 0>>, probe |-> <<0, 0>>, idx |-> 0, modes |-> 1,
         campbell |-> FALSE, rpm |-> 0]
AllOk == [rotor_ok |-> TRUE, solver_ok |-> TRUE, wn_len |-> 1, table_ok |-> TRUE,
          solver2_ok |-> TRUE, rerun_ok |-> TRUE, rotor1_ok |-> TRUE]

\* the values of an input of the Modal branch: one value is enough where the
\* run does not get to use the input
CampbellInputs(used) == IF used THEN BOOLEAN ELSE {FALSE}
ModesFor(used) == IF used THEN ModesInputs ELSE {1}

\* a run of the page in which the first if/elif chain may dispatch; a table of
\* equal columns is displayed, what st.table does with unequal columns is up
\* to Streamlit
RunWithFirstChain(press, an, p) ==
    \E rotor_ok \in Outcomes(shaft_elems # <<>>) :
    \E solver_ok \in Outcomes(shaft_elems # <<>> /\ rotor_ok /\ an \in {"Static", "Modal", "UCS"}) :
    \E md \in ModesFor(shaft_elems # <<>> /\ rotor_ok /\ solver_ok /\ an = "Modal"),
       wn_len \in ProvidedModes :
    \E table_ok \in Outcomes(shaft_elems # <<>> /\ rotor_ok /\ solver_ok /\ an = "Modal"
                             /\ md > wn_len) :
    \E cb \in CampbellInputs(shaft_elems # <<>> /\ rotor_ok /\ solver_ok /\ table_ok
                             /\ an = "Modal") :
    \E solver2_ok \in Outcomes(cb) :
    \E r \in {RunAnalyses(press, an, [NoIn EXCEPT !.campbell = cb, !.modes = md],
                           [AllOk EXCEPT !.rotor_ok = rotor_ok, !.solver_ok = solver_ok,
                                         !.wn_len = wn_len, !.table_ok = table_ok,
                                         !.solver2_ok = solver2_ok], TRUE)} :
        Commit(r, p)

ClearShaftElements ==
    /\ menu = "Analyses"
    /\ "Clear all Shaft Elements" \in rendered
    /\ RunWithFirstChain("Clear all Shaft Elements", analysis, "Clear all Shaft Elements")
    /\ UNCHANGED menu

ClearDiskElements ==
    /\ menu = "Analyses"
    /\ "Clear all Disk Elements" \in rendered
    /\ RunWithFirstChain("Clear all Disk Elements", analysis, "Clear all Disk Elements")
    /\ UNCHANGED menu

ClearBearingElements ==
    /\ menu = "Analyses"
    /\ "Clear all Bearing Elements" \in rendered
    /\ RunWithFirstChain("Clear all Bearing Elements", analysis, "Clear all Bearing Elements")
    /\ UNCHANGED menu

\* the user picks another entry of the "Select analysis" selectbox
SelectAnalysis ==
    /\ menu = "Analyses"
    /\ "Select analysis" \in rendered
    /\ \E an \in AnalysisKinds \ {analysis} : RunWithFirstChain("none", an, "none")
    /\ UNCHANGED menu

\* the user edits an input field of the Analyses page: a run with no button
EditAnalysisInput ==
    /\ menu = "Analyses"
    /\ RunWithFirstChain("none", analysis, "none")
    /\ UNCHANGED menu

\* a press of a button of the Unbalance branch; the first chain does nothing
\* when that branch is on screen
UnbalanceRun(press, in, p) ==
    \E rotor_ok \in Outcomes(shaft_elems # <<>>) :
    \E solver_ok \in Outcomes(shaft_elems # <<>> /\ rotor_ok /\ unbalances # <<>>
                              /\ press \in {"Run Unbalance Response", "run_unbalance"}) :
    \E r \in {RunAnalyses(press, analysis, in,
                           [AllOk EXCEPT !.rotor_ok = rotor_ok, !.solver_ok = solver_ok],
                           TRUE)} :
        Commit(r, p)

AddUnbalanceMass ==
    /\ menu = "Analyses"
    /\ "Add Unbalance Mass" \in rendered
    /\ Len(uHist) < MaxUnbAdds
    /\ Room
    /\ UnbalanceRun("Add Unbalance Mass", [NoIn EXCEPT !.unb = UnbInput(Len(uHist) + 1)],
                    "Add Unbalance Mass")
    /\ UNCHANGED menu

RemoveRun(press, i) ==
    \E rotor_ok \in Outcomes(shaft_elems # <<>>) :
    \E rerun_ok \in Outcomes(shaft_elems # <<>> /\ rotor_ok) :
    \E rotor2_ok \in Outcomes(shaft_elems # <<>> /\ rotor_ok /\ rerun_ok) :
    \E r \in {RunAnalyses(press, analysis, [NoIn EXCEPT !.idx = i],
                           [AllOk EXCEPT !.rotor_ok = rotor_ok, !.rerun_ok = rerun_ok],
                           rotor2_ok)} :
        Commit(r, press)

RemoveUnbalance ==
    /\ menu = "Analyses"
    /\ \E i \in 0..(n_del - 1) : RemoveRun("del", i)
    /\ UNCHANGED menu

RunUnbalanceResponse ==
    /\ menu = "Analyses"
    /\ "Run Unbalance Response" \in rendered
    /\ UnbalanceRun("Run Unbalance Response", NoIn, "Run Unbalance Response")
    /\ UNCHANGED menu

AddProbe ==
    /\ menu = "Analyses"
    /\ "Add Probe" \in rendered
    /\ Len(pHist) < MaxProbeAdds
    /\ Room
    /\ UnbalanceRun("Add Probe", [NoIn EXCEPT !.probe = ProbeInput(Len(pHist) + 1)],
                    "Add Probe")
    /\ UNCHANGED menu

RemoveProbe ==
    /\ menu = "Analyses"
    /\ \E i \in 0..(n_del_pr - 1) : RemoveRun("del_pr", i)
    /\ UNCHANGED menu

RunUnbalanceKeyed ==
    /\ menu = "Analyses"
    /\ "run_unbalance" \in rendered
    /\ UnbalanceRun("run_unbalance", NoIn, "run_unbalance")
    /\ UNCHANGED menu

RunUnbalanceElif ==
    /\ menu = "Analyses"
    /\ "unbalance" \in rendered
    /\ UnbalanceRun("unbalance", NoIn, "unbalance")
    /\ UNCHANGED menu


StartLevel1 ==
    /\ menu = "Analyses"
    /\ "Start level 1 analysis" \in rendered
    /\ \E rpm \in RatedInputs, rotor_ok \in Outcomes(shaft_elems # <<>>) :
       \E rotor1_ok \in Outcomes(shaft_elems # <<>> /\ rotor_ok) :
       \E solver_ok \in Outcomes(shaft_elems # <<>> /\ rotor_ok /\ rotor1_ok) :
       \E r \in {RunAnalyses("Start level 1 analysis", analysis, [NoIn EXCEPT !.rpm = rpm],
                              [AllOk EXCEPT !.rotor_ok = rotor_ok, !.rotor1_ok = rotor1_ok,
                                            !.solver_ok = solver_ok], TRUE)} :
          Commit(r, "Start level 1 analysis")
    /\ UNCHANGED menu

\* ------------------------------------------------------------- the sidebar
\* the user picks another page in the sidebar radio: a run of that page with
\* no button, its selectors at their defaults
SelectMenu ==
    \E m \in Pages \ {menu} :
       /\ menu' = m
       /\ IF m = "Analyses"
          THEN RunWithFirstChain("none", DefaultAnalysis, "none")
          ELSE /\ \E rotor_ok \in Outcomes(shaft_elems # <<>> /\ m \in {"Shaft Elements",
                                               "Disk Elements", "Bearings & Seals"}) :
                     Shown("none",
                           CASE m = "Shaft Elements" -> {"Add Shaft Element"}
                             [] m = "Disk Elements" -> {"Add Disk Element"}
                             [] m = "Bearings & Seals" -> BearingButtons(DefaultBearingType)
                             [] OTHER -> {},
                           IF m \in {"Shaft Elements", "Disk Elements", "Bearings & Seals"}
                           THEN Preview(shaft_elems, rotor_ok) ELSE "none",
                           {})
               /\ bearing_type' = DefaultBearingType
               /\ UNCHANGED store_vars
               /\ UNCHANGED hist_vars
               /\ UNCHANGED parse_vars

\* ----------------------------------------------------------- specification
InitSession ==
    /\ shaft_elems = <<>>
    /\ disk_elems = <<>>
    /\ bearing_elems = <<>>
    /\ has_unbalances = FALSE
    /\ unbalances = <<>>
    /\ has_probes = FALSE
    /\ probes = <<>>
    /\ menu = "Home"
    /\ bearing_type = DefaultBearingType
    /\ analysis = DefaultAnalysis
    /\ rendered = {}
    /\ n_del = 0
    /\ n_del_pr = 0
    /\ pressed = "none"
    /\ error = "none"
    /\ msgs = {}
    /\ calls = <<>>
    /\ summary = NoSummary
    /\ uHist = <<>>
    /\ uRemoved = {}
    /\ pHist = <<>>
    /\ pRemoved = {}
    /\ form = NoForm
    /\ parsed = NotParsed

Init == InitSession /\ text = <<>>

Next ==
    \/ SelectMenu
    \/ AddShaftElement
    \/ AddDiskElement
    \/ AddBearingElement
    \/ AddFluidFilmBearing
    \/ SelectBearingType
    \/ ClearShaftElements
    \/ ClearDiskElements
    \/ ClearBearingElements
    \/ SelectAnalysis
    \/ EditAnalysisInput
    \/ AddUnbalanceMass
    \/ RemoveUnbalance
    \/ RunUnbalanceResponse
    \/ AddProbe
    \/ RemoveProbe
    \/ RunUnbalanceKeyed
    \/ RunUnbalanceElif
    \/ StartLevel1

Spec == Init /\ [][Next]_vars


\* ----------------------------------------------------------- parser harness
\* parse_list applied to every text over Alphabet of at most MaxTextLen
\* characters
InitParse == InitSession /\ text \in TextsUpTo(MaxTextLen)

ParseText ==
    /\ ~parsed.done
    /\ parsed' = [done |-> TRUE, ok |-> parse_list(text).ok, val |-> parse_list(text).val]
    /\ UNCHANGED <<store_vars, hist_vars, menu, bearing_type, analysis, rendered, n_del,
                   n_del_pr, pressed, error, msgs, calls, summary, form, text>>

NextParse == ParseText

SpecParse == InitParse /\ [][NextParse]_vars


\* ------------------------------------------------------------------ claims
\* the entries of hist that were not removed, in append order
Surviving(hist, removed) == SelectSeq(hist, LAMBDA e : e.id \notin removed)

C2_SolverNeverOnEmpty ==
    \A i \in 1..Len(calls) :
        calls[i].fn = "run_unbalance_response" =>
            calls[i].store.unb # <<>> /\ calls[i].nodes # <<>>

C2_Witness ==
    /\ pressed = "run_unbalance"
    /\ Len(unbalances) = 2
    /\ Len(calls) = 1
    /\ calls[1].fn = "run_unbalance_response"

RunButtons == {"Run Unbalance Response", "run_unbalance", "unbalance"}

\* C3: a press of a 'Run Unbalance Response' button that the run processed
\* while the unbalance collection is empty reports the validation error to
\* the user.
C3_Claim ==
    (pressed \in RunButtons /\ pressed \in rendered /\ error = "none" /\ unbalances = <<>>)
        => "Add at least one unbalance mass first." \in msgs

\* C4: no model is assembled from an empty shaft collection and no analysis
\* routine is called while the shaft collection is empty.
C4_Claim ==
    \A i \in 1..Len(calls) :
        calls[i].rotor.shaft # <<>> /\ calls[i].store.shaft # <<>>

BuildErrors == {"ValueError", "BearingElement", "BearingFluidFlow"}

\* C5: an 'Add Bearing Element' or 'Add Fluid Film Bearing' run that ends in
\* a parse or construction error leaves the bearing collection as it was;
\* any other such run appends exactly one entry at the end.
C5_AddBearingAllOrNothing ==
    [][pressed' \in {"Add Bearing Element", "Add Fluid Film Bearing"} =>
          IF error' \in BuildErrors
          THEN bearing_elems' = bearing_elems
          ELSE /\ Len(bearing_elems') = Len(bearing_elems) + 1
               /\ SubSeq(bearing_elems', 1, Len(bearing_elems)) = bearing_elems
               /\ bearing_elems'[Len(bearing_elems')].kind \in {"Linear", "FluidFilm"}]_vars

\* a construction error with an entry already in the collection
C5_Witness ==
    /\ pressed = "Add Bearing Element"
    /\ error = "BearingElement"
    /\ Len(bearing_elems) = 1

DispatchErrors == {"run_static", "run_modal", "run_campbell", "run_ucs",
                   "run_unbalance_response", "run_level1"}

\* C6: a run whose analysis routine fails leaves the five collections as
\* they were when the run started.
C6_Claim ==
    [][error' \in DispatchErrors =>
          <<shaft_elems, disk_elems, bearing_elems, unbalances, probes>>'
              = <<shaft_elems, disk_elems, bearing_elems, unbalances, probes>>]_vars

\* the tokens of a text, told from the positions of its commas
CommaPositions(t) == {i \in 1..Len(t) : t[i] = ","}
NumTokens(t) == Cardinality(CommaPositions(t)) + 1
KthComma(t, k) ==
    CHOOSE i \in CommaPositions(t) : Cardinality({j \in CommaPositions(t) : j <= i}) = k
TokenAt(t, k) ==
    SubSeq(t, IF k = 1 THEN 1 ELSE KthComma(t, k - 1) + 1,
              IF k = NumTokens(t) THEN Len(t) ELSE KthComma(t, k) - 1)

\* the last run was an 'Add Bearing Element' that appended, frequency text blank
ScalarAdded ==
    /\ pressed = "Add Bearing Element"
    /\ error \notin BuildErrors
    /\ form # NoForm
    /\ Strip(form[3]) = <<>>

\* C8 as stated: with an empty frequency text a scalar bearing is stored only
\* from coefficient lists of exactly one token each.
C8_Claim == ScalarAdded => NumTokens(form[1]) = 1 /\ NumTokens(form[2]) = 1

\* C8 as amended: with a blank frequency text the stored bearing is the scalar
\* bearing of the first token of each coefficient list, however many tokens
\* the lists have.
C8_ScalarFromFirstToken ==
    ScalarAdded =>
        /\ bearing_elems # <<>>
        /\ LET b == bearing_elems[Len(bearing_elems)]
               a1 == <<FloatVal(TokenAt(form[1], 1))>>
               b1 == <<FloatVal(TokenAt(form[2], 1))>>
           IN /\ b.kind = "Linear" /\ b.scalar /\ b.frequency = <<>>
              /\ b.kxx = a1 /\ b.kyy = a1 /\ b.cxx = a1 /\ b.cyy = a1
              /\ b.kxy = b1 /\ b.kyx = b1 /\ b.cxy = b1 /\ b.cyx = b1

\* "2,1" in every coefficient field, blank frequencies: scalar bearing of 2
C8_Witness ==
    /\ ScalarAdded
    /\ NumTokens(form[1]) = 2
    /\ bearing_elems # <<>>
    /\ bearing_elems[Len(bearing_elems)].kxx = <<2>>

\* C9: every fluid-film bearing in the collection has at least 3
\* circumferential grid points and a stator radius above its rotor radius.
C9_Claim ==
    \A i \in 1..Len(bearing_elems) :
        bearing_elems[i].kind = "FluidFilm" =>
            /\ bearing_elems[i].ntheta >= 3
            /\ bearing_elems[i].radius_stator > bearing_elems[i].radius_rotor

\* C10: for a text whose comma-delimited tokens are all numeric the parser
\* returns one value per token, in token order; for any other text, an empty
\* token and the empty text included, it fails and returns nothing.
C10_ParseAllOrNothing ==
    parsed.done =>
        LET n == NumTokens(text)
        IN /\ IF \A k \in 1..n : FloatOk(TokenAt(text, k))
              THEN /\ parsed.ok
                   /\ Len(parsed.val) = n
                   /\ \A k \in 1..n : parsed.val[k] = FloatVal(TokenAt(text, k))
              ELSE ~parsed.ok /\ parsed.val = <<>>
           /\ (\E k \in 1..n : TokenAt(text, k) = <<>>) => ~parsed.ok
           /\ text = <<>> => ~parsed.ok

\* "2,12" gives [2, 12]
C10_Witness ==
    /\ parsed.done
    /\ text = <<"2", ",", "1", "2">>
    /\ parsed.ok
    /\ parsed.val = <<2, 12>>

Collections == <<shaft_elems, disk_elems, bearing_elems, unbalances, probes>>

\* C11: one run performs at most one collection mutation or one call of an
\* analysis routine: never a mutation together with a call, never two calls.
C11_Claim ==
    [][/\ Len(calls') <= 1
       /\ ~(calls' # <<>> /\ Collections' # Collections)]_vars

ShaftErrors == {"ZeroDivisionError", "ShaftElement"}

\* C12: an 'Add Shaft Element' run with a stiffness diameter of zero ends in
\* an error and leaves the shaft collection as it was, whatever the mass
\* diameter.
C12_Claim ==
    [][(pressed' = "Add Shaft Element" /\ form'[2] = 0) =>
          /\ error' \in ShaftErrors
          /\ shaft_elems' = shaft_elems]_vars

\* the last run was an 'Add Shaft Element' that appended
ShaftAdded ==
    /\ pressed = "Add Shaft Element"
    /\ error \notin ShaftErrors

\* C13: the element appended by 'Add Shaft Element' has the stiffness diameter
\* as outer diameter; with equal mass and stiffness diameters its density is
\* the base density, otherwise base density * (od_mass / od_stiff)^2 to within
\* 0.5 %, which is 11304 for 120 mm over 100 mm.
C13_ShaftDensity ==
    ShaftAdded =>
        /\ shaft_elems # <<>>
        /\ LET e == shaft_elems[Len(shaft_elems)]
               od_mass == form[1]
               od_stiff == form[2]
           IN /\ e.odl = od_stiff * 1000
              /\ od_mass = od_stiff => e.rho = STEEL_RHO
              /\ od_mass # od_stiff =>
                    LET got == e.rho * od_stiff * od_stiff
                        want == STEEL_RHO * od_mass * od_mass
                    IN got - want <= want \div 200 /\ want - got <= want \div 200
              /\ (od_mass = 120 /\ od_stiff = 100) => e.rho = 11304

\* 120 mm for mass, 100 mm for stiffness
C13_Witness ==
    /\ ShaftAdded
    /\ form = <<120, 100>>
    /\ shaft_elems # <<>>
    /\ shaft_elems[Len(shaft_elems)] = [n |-> 0, odl |-> 100000, rho |-> 11304]

\* the routine of an analysis kind
RoutineOf(an) ==
    CASE an = "Static" -> "run_static"
      [] an = "Modal" -> "run_modal"
      [] an = "UCS" -> "run_ucs"
      [] an = "Unbalance" -> "run_unbalance_response"
      [] an = "Level 1 Stability" -> "run_level1"

\* C14 as stated: a run that calls an analysis routine calls exactly one, the
\* routine of the selected analysis kind.
C14_Claim ==
    calls # <<>> => Len(calls) = 1 /\ calls[1].fn = RoutineOf(analysis)

\* C14 as amended: a run that calls an analysis routine calls the routine of
\* the selected kind first; the only call that can follow it is run_campbell,
\* once, when Modal is selected.
C14_RoutineOfSelectedKind ==
    calls # <<>> =>
        /\ calls[1].fn = RoutineOf(analysis)
        /\ \/ Len(calls) = 1
           \/ analysis = "Modal" /\ Len(calls) = 2 /\ calls[2].fn = "run_campbell"

\* Modal with 'Show Campbell diagram' ticked: run_modal, then run_campbell
C14_Witness ==
    /\ analysis = "Modal"
    /\ error = "none"
    /\ Len(calls) = 2
    /\ calls[1].fn = "run_modal"
    /\ calls[2].fn = "run_campbell"

\* new is old with one entry appended
IsAppend(old, new) == Len(new) = Len(old) + 1 /\ SubSeq(new, 1, Len(old)) = old

\* new is old with the entry of one row taken out
IsRemoval(old, new) ==
    \E k \in 1..Len(old) : new = SubSeq(old, 1, k - 1) \o SubSeq(old, k + 1, Len(old))

\* C15: a collection changes only in a run started by one of its own buttons:
\* the shaft, disk and bearing collections grow by an add and become empty by
\* their 'Clear all ...' button, the unbalance and probe collections grow by
\* an add and lose one entry by a remove button; every other run (navigation,
\* analysis selection, input edits, analysis runs, buttons of another
\* collection) leaves the collection as it was.
C15_ShrinkOnlyExplicit ==
    [][/\ shaft_elems' # shaft_elems =>
             \/ pressed' = "Clear all Shaft Elements" /\ shaft_elems' = <<>>
             \/ pressed' = "Add Shaft Element" /\ IsAppend(shaft_elems, shaft_elems')
       /\ disk_elems' # disk_elems =>
             \/ pressed' = "Clear all Disk Elements" /\ disk_elems' = <<>>
             \/ pressed' = "Add Disk Element" /\ IsAppend(disk_elems, disk_elems')
       /\ bearing_elems' # bearing_elems =>
             \/ pressed' = "Clear all Bearing Elements" /\ bearing_elems' = <<>>
             \/ /\ pressed' \in {"Add Bearing Element", "Add Fluid Film Bearing"}
                /\ IsAppend(bearing_elems, bearing_elems')
       /\ unbalances' # unbalances =>
             \/ pressed' = "del" /\ IsRemoval(unbalances, unbalances')
             \/ pressed' = "Add Unbalance Mass" /\ IsAppend(unbalances, unbalances')
       /\ probes' # probes =>
             \/ pressed' = "del_pr" /\ IsRemoval(probes, probes')
             \/ pressed' = "Add Probe" /\ IsAppend(probes, probes')]_vars

\* 'Clear all Disk Elements' emptied a disk collection that the model built at
\* the start of the run still shows, and left the shaft and bearing entries
C15_Witness ==
    /\ pressed = "Clear all Disk Elements"
    /\ disk_elems = <<>>
    /\ calls # <<>>
    /\ calls[1].rotor.disk # <<>>
    /\ shaft_elems # <<>>
    /\ bearing_elems # <<>>

\* C16: every call of run_unbalance_response gets node, mass and phase lists
\* as long as the unbalance collection, whose i-th entries are the node, mass
\* and phase of the i-th stored unbalance.
C16_WholeListPassed ==
    \A i \in 1..Len(calls) :
        calls[i].fn = "run_unbalance_response" =>
            /\ Len(calls[i].nodes) = Len(unbalances)
            /\ Len(calls[i].masses) = Len(unbalances)
            /\ Len(calls[i].phases) = Len(unbalances)
            /\ \A k \in 1..Len(unbalances) :
                  /\ calls[i].nodes[k] = unbalances[k].node
                  /\ calls[i].masses[k] = unbalances[k].mass
                  /\ calls[i].phases[k] = unbalances[k].phase

\* two stored unbalances, first button: nodes [0, 1], masses [1, 0]
C16_Witness ==
    /\ pressed = "Run Unbalance Response"
    /\ Len(unbalances) = 2
    /\ Len(calls) = 1
    /\ calls[1].nodes = <<0, 1>>
    /\ calls[1].masses = <<1, 0>>
    /\ calls[1].phases = <<90, 180>>

\* C17: a Modal run asked for more modes than the modal result holds ends in
\* an analysis error: no summary is built whose "Mode" column is longer than
\* its frequency, damping-ratio and log-decrement columns.
C17_Claim ==
    (summary # NoSummary /\ summary.mode > summary.rows) => error \in DispatchErrors

\* C18: every model handed to an analysis routine is the assembly of the
\* shaft, disk and bearing collections as they are when the routine is called.
C18_Claim ==
    \A i \in 1..Len(calls) :
        /\ calls[i].rotor.shaft = calls[i].store.shaft
        /\ calls[i].rotor.disk = calls[i].store.disk
        /\ calls[i].rotor.bearing = calls[i].store.bearing

\* C19: the message 'Add at least one unbalance mass first.' is shown only by
\* runs that end with the unbalance collection empty.
C19_Claim ==
    "Add at least one unbalance mass first." \in msgs => unbalances = <<>>

\* C20: a run of the Analyses page that got past the analysis selector without
\* an exception has executed the branch of the selected kind: the widgets of
\* the Unbalance branch, or of the Level 1 Stability branch, are on screen.
C20_Claim ==
    (menu = "Analyses" /\ "Select analysis" \in rendered /\ error = "none") =>
        /\ analysis = "Unbalance" => "Add Unbalance Mass" \in rendered
        /\ analysis = "Level 1 Stability" => "Start level 1 analysis" \in rendered

\* the ids of the entries of a list
Ids(l) == {l[k].id : k \in 1..Len(l)}

\* C21: a run started by a remove button never ends in IndexError; it either
\* leaves the list as it was or takes out exactly one entry, and the entry
\* taken out was in the list when the run started.
C21_RemoveInRange ==
    [][/\ pressed' = "del" =>
             /\ error' # "IndexError"
             /\ unbalances' = unbalances \/ IsRemoval(unbalances, unbalances')
             /\ uRemoved' \ uRemoved \subseteq Ids(unbalances)
             /\ Cardinality(uRemoved' \ uRemoved) = Len(unbalances) - Len(unbalances')
       /\ pressed' = "del_pr" =>
             /\ error' # "IndexError"
             /\ probes' = probes \/ IsRemoval(probes, probes')
             /\ pRemoved' \ pRemoved \subseteq Ids(probes)
             /\ Cardinality(pRemoved' \ pRemoved) = Len(probes) - Len(probes')]_vars

\* the last row was removed and st.experimental_rerun() raised: the run ended
\* right after the pop, with one remove button more on screen than the list
\* has entries
C21_Witness ==
    /\ pressed = "del"
    /\ error = "experimental_rerun"
    /\ n_del = Len(unbalances) + 1
    /\ Cardinality(uRemoved) = 1
    /\ Len(uHist) = 2
    /\ unbalances = <<uHist[1]>>

====
